---- MODULE Spec2Model ----
(***************************************************************************)
(* pyslo: the SLI engine (pyslo/sli.py, class Sli) together with its       *)
(* Stackdriver metric client (label namespacing, the fetch into a frame)   *)
(* and the client's filter (StackDriverFilter).                            *)
(*                                                                         *)
(* Representation.                                                         *)
(*  - A pandas DataFrame of observations is a record                        *)
(*      [dtype, columns, rows]: rows is the sequence of points, each a     *)
(*      record [value, labels]; labels is a function from the namespaced   *)
(*      label columns the point has to their values (a column the point    *)
(*      lacks is NaN in the frame); columns is the set of label columns of *)
(*      the frame; dtype is the dtype of the 'value' column ("absent" when *)
(*      the frame has no such column).                                     *)
(*  - A result table (slo_data) is [columns, rows]: columns is the         *)
(*      sequence of column names, rows a sequence of functions from the    *)
(*      column names to cell values.                                       *)
(*  - Python's None is the record None; a float is an exact rational       *)
(*      [num, den] in lowest terms, NaN being [num |-> 0, den |-> 0]; a    *)
(*      str that may also be None is the record [str |-> s].               *)
(*  - An exception leaves the engine as the statements before the raise    *)
(*      left it; last records the call and the exception it raised.        *)
(***************************************************************************)
EXTENDS Integers, Sequences, FiniteSets, TLC

VARIABLES
    metric_data,                \* Sli.metric_data
    window_end,                 \* Sli.window_end (seconds from the epoch)
    window_length,              \* Sli.window_length (days) or None
    slo,                        \* Sli.slo: None or a rational
    slo_data,                   \* Sli.slo_data: None or a result table
    group_by_resource_labels,   \* Sli.group_by_resource_labels
    group_by_metric_labels,     \* Sli.group_by_metric_labels
    value_type,                 \* Sli.metric_client.value_type
    metric_type,                \* StackdriverMetricClient._metric_type
    resource_type,              \* StackdriverMetricClient._resource_type
    filter,                     \* StackdriverMetricClient._filter
    last,                       \* the last call: [op, exc, ret]
    calculated                  \* history: a calculate() has returned a table

vars == << metric_data, window_end, window_length, slo, slo_data,
           group_by_resource_labels, group_by_metric_labels, value_type,
           metric_type, resource_type, filter, last, calculated >>

\* the metric and resource types of the client and of its filter
client == << metric_type, resource_type, filter >>

config == << metric_data, window_end, window_length, slo,
             group_by_resource_labels, group_by_metric_labels, value_type, client >>

----------------------------------------------------------------------------
(* Bounds of the model *)

\* the most points a frame of observations holds
MaxRows == 3
\* the longest group-by list whose namespacing is checked
MaxLabelLen == 2
\* the longest window, in days
MaxDays == 2

----------------------------------------------------------------------------
(* Values *)

None == [none |-> TRUE]

RECURSIVE GCD(_, _)
GCD(a, b) == IF b = 0 THEN a ELSE GCD(b, a % b)

Abs(n) == IF n < 0 THEN -n ELSE n

NaN == [num |-> 0, den |-> 0]

\* the float n/d (d # 0), in lowest terms with a positive denominator
Rat(n, d) ==
    LET g == GCD(Abs(n), Abs(d))
        s == IF d < 0 THEN -1 ELSE 1
    IN  [num |-> s * (n \div g), den |-> s * (d \div g)]

\* an int as a float
FromInt(n) == [num |-> n, den |-> 1]

\* x / y as numpy divides a sum by a count: y = 0 gives NaN (0/0), never raises
NpDiv(x, y) == IF y = 0 THEN NaN ELSE Rat(x, y)

RSub(a, b) ==
    IF a.den = 0 \/ b.den = 0 THEN NaN
    ELSE Rat(a.num * b.den - b.num * a.den, a.den * b.den)

RMul(a, b) ==
    IF a.den = 0 \/ b.den = 0 THEN NaN
    ELSE Rat(a.num * b.num, a.den * b.den)

RECURSIVE SeqSum(_)
SeqSum(s) == IF s = << >> THEN 0 ELSE Head(s) + SeqSum(Tail(s))

Range(s) == { s[i] : i \in DOMAIN s }

SeqsUpTo(S, n) == UNION { [1..k -> S] : k \in 0..n }

----------------------------------------------------------------------------
(* Observations *)

\* unqualified label names a caller may group by
LabelNames == {"env", "ver"}

Origins == {"resource", "metric"}

\* prepend_key with a single underscore
prepend_key_OneUnderscore(key, prepend) == prepend \o "_" \o key

\* StackdriverMetricClient.prepend_key: f'{prepend}__{key}'
prepend_key(key, prepend) == prepend \o "__" \o key

\* the label columns the observations of the model carry: the resource label
\* env and the metric label of the same unqualified name
DataColumns == { prepend_key("env", o) : o \in Origins }

\* label values, in ascending (lexicographic) order
LabelValueOrder == << "a", "b" >>

LabelValues == Range(LabelValueOrder)

ValueRank(v) == CHOOSE i \in DOMAIN LabelValueOrder : LabelValueOrder[i] = v

\* get_point_value: int(point_value.bool_value)
PointValues == {0, 1}

\* the labels of the points enumerated: every point carries the metric label,
\* the resource label may be missing
LabelMaps ==
    UNION { [C -> LabelValues] :
              C \in { D \in SUBSET DataColumns : prepend_key("env", "metric") \in D } }

Observations == [value : PointValues, labels : LabelMaps]

\* to_df: pd.DataFrame(points), the columns being the union of the points' keys
to_df(points) ==
    [dtype |-> "int64",
     columns |-> UNION { DOMAIN points[i].labels : i \in DOMAIN points },
     rows |-> points]

\* frames without a row: pd.DataFrame() has no column at all; a frame filtered
\* down to nothing keeps its typed columns
EmptyFrames ==
    { [dtype |-> "absent", columns |-> {}, rows |-> << >>],
      [dtype |-> "int64", columns |-> DataColumns, rows |-> << >>] }

FramesUpTo(n) ==
    { to_df(p) : p \in (SeqsUpTo(Observations, n) \ {<< >>}) } \cup EmptyFrames

Frames == FramesUpTo(MaxRows)

\* the group-by lists handed to the aggregation: over the one label name the
\* observations carry, a list longer than one name can only repeat it
GroupLists == { << >>, << "env" >>, << "env", "env" >> }

ValueTypes == {"None", "BOOL", "INT64", "Some other type"}

\* objectives a caller sets, as percentages
SloPercents == {0, 50, 99}

Slos == { Rat(p, 100) : p \in SloPercents }

WindowEnds == {86400, 200000}

\* the reading of time.time() when the engine is constructed
Now == 200000

----------------------------------------------------------------------------
(* Sli: derived attributes *)

\* group_by_labels with the metric labels first
group_by_labels_MetricFirst(resource, metric) ==
    [i \in DOMAIN metric |-> prepend_key(metric[i], "metric")]
        \o [i \in DOMAIN resource |-> prepend_key(resource[i], "resource")]

\* Sli.group_by_labels
group_by_labels(resource, metric) ==
    [i \in DOMAIN resource |-> prepend_key(resource[i], "resource")]
        \o [i \in DOMAIN metric |-> prepend_key(metric[i], "metric")]

\* days_to_seconds that converts to minutes
days_to_seconds_Minutes(days) == days * 24 * 60

\* Sli.days_to_seconds
days_to_seconds(days) == days * 24 * 60 * 60

\* Sli.window_length_seconds (window_length an int)
window_length_seconds(length) == days_to_seconds(length.days)

\* Sli.window_start
window_start(end, length) == end - window_length_seconds(length)

----------------------------------------------------------------------------
(* Result tables *)

Table(columns, rows) == [columns |-> columns, rows |-> rows]

HasColumn(t, c) == c \in Range(t.columns)

\* t[c] = vals: the column is added at the end, or overwritten in its place;
\* vals holds one cell per row
SetColumn(t, c, vals) ==
    [columns |-> IF HasColumn(t, c) THEN t.columns ELSE Append(t.columns, c),
     rows |-> [i \in DOMAIN t.rows |->
                 [k \in DOMAIN t.rows[i] \cup {c} |->
                     IF k = c THEN vals[i] ELSE t.rows[i][k]]]]

\* t[c] = v for a scalar v
SetScalar(t, c, v) == SetColumn(t, c, [i \in DOMAIN t.rows |-> v])

\* datetime.fromtimestamp(ts, tz=pytz.UTC)
fromtimestamp(ts) == [utc |-> ts]

----------------------------------------------------------------------------
(* Grouping: DataFrame.groupby(keys) *)

HasDuplicates(s) == \E i, j \in DOMAIN s : i < j /\ s[i] = s[j]

\* the rows groupby keeps: a row with NaN in a key column belongs to no group
GroupedRows(frame, keys) ==
    SelectSeq(frame.rows, LAMBDA r : Range(keys) \subseteq DOMAIN r.labels)

KeyTuple(r, keys) == [i \in DOMAIN keys |-> r.labels[keys[i]]]

KeyTuples(frame, keys) ==
    { KeyTuple(frame.rows[i], keys) :
        i \in { j \in DOMAIN frame.rows :
                    Range(keys) \subseteq DOMAIN frame.rows[j].labels } }

\* lexicographic order of two key tuples of the same length
TupleLess(s, t) ==
    \E i \in DOMAIN s :
        /\ ValueRank(s[i]) < ValueRank(t[i])
        /\ \A j \in 1..(i - 1) : s[j] = t[j]

\* groupby sorts the group keys (sort=True)
RECURSIVE SortedTuples(_)
SortedTuples(S) ==
    IF S = {} THEN << >>
    ELSE LET m == CHOOSE x \in S : \A y \in S \ {x} : TupleLess(x, y)
         IN  << m >> \o SortedTuples(S \ {m})

\* a sequence without the later occurrences of its elements
RECURSIVE FirstOccurrences(_)
FirstOccurrences(s) ==
    IF s = << >> THEN << >>
    ELSE LET d == FirstOccurrences(SubSeq(s, 1, Len(s) - 1))
             x == s[Len(s)]
         IN  IF x \in Range(d) THEN d ELSE Append(d, x)

\* the group keys in the order the data first shows them (groupby sort=False)
GroupKeys_AsEncountered(frame, keys) ==
    LET rows == GroupedRows(frame, keys)
    IN  FirstOccurrences([i \in DOMAIN rows |-> KeyTuple(rows[i], keys)])

GroupKeys(frame, keys) == SortedTuples(KeyTuples(frame, keys))

GroupOf(frame, keys, t) ==
    SelectSeq(GroupedRows(frame, keys), LAMBDA r : KeyTuple(r, keys) = t)

ValuesOf(rows) == [i \in DOMAIN rows |-> rows[i].value]

\* groupby(keys).sum().reset_index().rename(columns={'value': 'count_good'}):
\* the key columns and the sum of the one numeric column
good_events(frame, keys) ==
    LET ks == GroupKeys(frame, keys)
    IN  Table(keys \o << "count_good" >>,
              [g \in DOMAIN ks |->
                 [c \in Range(keys) \cup {"count_good"} |->
                     IF c = "count_good"
                     THEN SeqSum(ValuesOf(GroupOf(frame, keys, ks[g])))
                     ELSE ks[g][CHOOSE i \in DOMAIN keys : keys[i] = c]]])

\* valid_events with the groups in descending order of their keys
valid_events_Descending(frame, keys) ==
    LET ks == GroupKeys(frame, keys)
    IN  [g \in DOMAIN ks |-> Len(GroupOf(frame, keys, ks[Len(ks) + 1 - g]))]

\* groupby(keys).count().reset_index().rename(...)['count_valid']: the number
\* of non-null values per group, indexed by position
valid_events(frame, keys) ==
    LET ks == GroupKeys(frame, keys)
    IN  [g \in DOMAIN ks |-> Len(GroupOf(frame, keys, ks[g]))]

\* the merge with valid_events a position late: the first row finds no match
MergeByIndex_Shifted(good, valid) ==
    SetColumn(good, "count_valid",
              [i \in DOMAIN good.rows |->
                  IF i - 1 \in DOMAIN valid THEN valid[i - 1] ELSE 0])

\* good_events.merge(valid_events, how='left', left_index=True, right_index=True)
MergeByIndex(good, valid) ==
    SetColumn(good, "count_valid",
              [i \in DOMAIN good.rows |->
                  IF i \in DOMAIN valid THEN valid[i] ELSE 0])

SliColumn(t) ==
    [i \in DOMAIN t.rows |-> NpDiv(t.rows[i]["count_good"], t.rows[i]["count_valid"])]

\* what Sli.calc_bool_agg raises, "none" when it returns
calc_bool_agg_exc(frame, keys) ==
    IF frame = None THEN "AttributeError"
    ELSE IF ~(Range(keys) \subseteq frame.columns) THEN "KeyError"
    ELSE IF HasDuplicates(keys) THEN "ValueError"
    ELSE "none"

\* Sli.calc_bool_agg: the table it stores
calc_bool_agg(frame, keys) ==
    LET merged == MergeByIndex(good_events(frame, keys), valid_events(frame, keys))
    IN  SetColumn(merged, "sli", SliColumn(merged))

\* what Sli.calc_bool_simple raises, "none" when it returns
calc_bool_simple_exc(frame) ==
    IF frame = None THEN "AttributeError"
    ELSE IF frame.dtype = "absent" THEN "KeyError"
    ELSE "none"

\* calc_bool_simple that counts the good points as the valid ones
calc_bool_simple_GoodAsValid(frame) ==
    LET good == SeqSum(ValuesOf(frame.rows))
    IN  Table(<< "count_good", "count_valid", "sli" >>,
              << [count_good |-> good, count_valid |-> good,
                  sli |-> NpDiv(good, good)] >>)

\* Sli.calc_bool_simple: the table it stores
calc_bool_simple(frame) ==
    LET valid == Len(frame.rows)
        good == SeqSum(ValuesOf(frame.rows))
    IN  Table(<< "count_good", "count_valid", "sli" >>,
              << [count_good |-> good, count_valid |-> valid,
                  sli |-> NpDiv(good, valid)] >>)

\* calc_bool that looks at the metric labels only
UsesAgg_MetricOnly(resource, metric) == Len(metric) > 0

\* Sli.calc_bool: grouped when either group-by list is non-empty
UsesAgg(resource, metric) == Len(metric) > 0 \/ Len(resource) > 0

calc_bool_exc(frame, resource, metric) ==
    IF UsesAgg(resource, metric)
    THEN calc_bool_agg_exc(frame, group_by_labels(resource, metric))
    ELSE calc_bool_simple_exc(frame)

calc_bool(frame, resource, metric) ==
    IF UsesAgg(resource, metric)
    THEN calc_bool_agg(frame, group_by_labels(resource, metric))
    ELSE calc_bool_simple(frame)

\* add_period with the two ends of the window exchanged
add_period_Exchanged(t, end, length) ==
    SetScalar(SetScalar(t, "period_from", fromtimestamp(end)),
              "period_to", fromtimestamp(window_start(end, length)))

\* Sli.add_period
add_period(t, end, length) ==
    SetScalar(SetScalar(t, "period_from", fromtimestamp(window_start(end, length))),
              "period_to", fromtimestamp(end))

\* Sli.add_slo
add_slo(t, objective) == SetScalar(t, "slo", objective)

\* the guard of Sli.error_budget: `not self.slo`
SloIsFalsy(objective) == objective = None \/ objective.num = 0

\* error_budget_columns with the remaining budget less the good events
error_budget_columns_LessGood(t, objective) ==
    LET budget == SetColumn(t, "error_budget",
                    [i \in DOMAIN t.rows |->
                        RMul(FromInt(t.rows[i]["count_valid"]),
                             RSub(FromInt(1), objective))])
    IN  SetColumn(budget, "error_budget_remaining",
                    [i \in DOMAIN budget.rows |->
                        RSub(budget.rows[i]["error_budget"],
                             FromInt(budget.rows[i]["count_good"]))])

\* error_budget_columns that also turns the slo column into the allowed
\* failure ratio
error_budget_columns_RewritesSlo(t, objective) ==
    LET budget == SetColumn(t, "error_budget",
                    [i \in DOMAIN t.rows |->
                        RMul(FromInt(t.rows[i]["count_valid"]),
                             RSub(FromInt(1), objective))])
        both == SetColumn(budget, "error_budget_remaining",
                    [i \in DOMAIN budget.rows |->
                        RSub(budget.rows[i]["error_budget"],
                             FromInt(budget.rows[i]["count_valid"]
                                        - budget.rows[i]["count_good"]))])
    IN  SetScalar(both, "slo", RSub(FromInt(1), objective))

\* the two columns Sli.error_budget assigns
error_budget_columns(t, objective) ==
    LET budget == SetColumn(t, "error_budget",
                    [i \in DOMAIN t.rows |->
                        RMul(FromInt(t.rows[i]["count_valid"]),
                             RSub(FromInt(1), objective))])
    IN  SetColumn(budget, "error_budget_remaining",
                    [i \in DOMAIN budget.rows |->
                        RSub(budget.rows[i]["error_budget"],
                             FromInt(budget.rows[i]["count_valid"]
                                        - budget.rows[i]["count_good"]))])

----------------------------------------------------------------------------
(* Sli.calculate and Sli.error_budget as functions of the engine's state:
   each gives the stored table after the call, the exception raised ("none"
   when the call returns) and what is returned *)

Outcome(table, exc, ret) == [slo_data |-> table, exc |-> exc, ret |-> ret]

\* the rows just computed appended to those of the table held before
StoreResult_Append(old, fresh) ==
    IF old = None THEN fresh
    ELSE Table(fresh.columns,
               [i \in DOMAIN old.rows |->
                    [c \in Range(fresh.columns) |->
                        IF c \in DOMAIN old.rows[i] THEN old.rows[i][c] ELSE NaN]]
                 \o fresh.rows)

\* the table just computed keeps the error budget of the table held before
StoreResult_KeepBudget(old, fresh) ==
    IF old # None /\ HasColumn(old, "error_budget")
    THEN SetScalar(fresh, "error_budget", NaN)
    ELSE fresh

\* self.slo_data = <the table just computed> (calc_bool_agg, calc_bool_simple)
StoreResult(old, fresh) == fresh

\* the BOOL branch of Sli.calculate: calc_bool, add_period, add_slo
calculate_bool(frame, end, length, objective, resource, metric, old) ==
    LET exc == calc_bool_exc(frame, resource, metric)
        fresh == StoreResult(old, calc_bool(frame, resource, metric))
    IN  IF exc # "none" THEN Outcome(old, exc, "raised")
        ELSE IF length = None THEN Outcome(fresh, "TypeError", "raised")
        ELSE Outcome(add_slo(add_period(fresh, end, length), objective),
                     "none", "slo_data")

\* calculate that forgets the stored table when it refuses the type
calculate_ClearsOnRefusal(vt, frame, end, length, objective, resource, metric, old) ==
    IF vt = "BOOL"
    THEN calculate_bool(frame, end, length, objective, resource, metric, old)
    ELSE IF vt = "Some other type" THEN Outcome(old, "none", "None")
    ELSE Outcome(None, "UnsupportedMetricType", "raised")

\* calculate that aggregates a metric of the reserved type as a boolean one
calculate_ReservedAsBool(vt, frame, end, length, objective, resource, metric, old) ==
    IF vt \in {"BOOL", "Some other type"}
    THEN calculate_bool(frame, end, length, objective, resource, metric, old)
    ELSE Outcome(old, "UnsupportedMetricType", "raised")

\* Sli.calculate
calculate(vt, frame, end, length, objective, resource, metric, old) ==
    IF vt = "BOOL"
    THEN calculate_bool(frame, end, length, objective, resource, metric, old)
    ELSE IF vt = "Some other type" THEN Outcome(old, "none", "None")
    ELSE Outcome(old, "UnsupportedMetricType", "raised")

\* error_budget that reads the stored table before it checks slo
error_budget_TableFirst(objective, old) ==
    IF old = None THEN Outcome(old, "TypeError", "raised")
    ELSE IF SloIsFalsy(objective) THEN Outcome(old, "ValueNotSet", "raised")
    ELSE Outcome(error_budget_columns(old, objective), "none", "slo_data")

\* Sli.error_budget
error_budget(objective, old) ==
    IF SloIsFalsy(objective) THEN Outcome(old, "ValueNotSet", "raised")
    ELSE IF old = None THEN Outcome(old, "TypeError", "raised")
    ELSE Outcome(error_budget_columns(old, objective), "none", "slo_data")

----------------------------------------------------------------------------
(* StackDriverFilter *)

\* a str held where None may be held too
Str(s) == [str |-> s]

\* `not x` for x a str or None
Falsy(x) == x = None \/ x = Str("")

\* what StackDriverFilter.validate_types_set raises, "none" when it returns True
validate_types_set_exc(f) ==
    IF Falsy(f.metric_type) /\ Falsy(f.resource_type) THEN "ValueError" ELSE "none"

\* string with the resource clause first
string_ResourceFirst(f) ==
    (IF Falsy(f.resource_type) THEN ""
     ELSE "resource.type=\"" \o f.resource_type.str \o "\" ")
    \o (IF Falsy(f.metric_type) THEN ""
        ELSE "metric.type=\"" \o f.metric_type.str \o "\" ")

\* StackDriverFilter.string once validate_types_set has returned
string(f) ==
    (IF Falsy(f.metric_type) THEN ""
     ELSE "metric.type=\"" \o f.metric_type.str \o "\" ")
    \o (IF Falsy(f.resource_type) THEN ""
        ELSE "resource.type=\"" \o f.resource_type.str \o "\" ")

----------------------------------------------------------------------------
(* StackdriverMetricClient: from the time series of a response to a frame *)

\* a dict of labels: a function from the label names it has to their values
LabelDicts(names) == UNION { [D -> LabelValues] : D \in SUBSET names }

\* prepend_label_names that leaves the names as they are
prepend_label_names_Bare(labels, prepend) == labels

\* StackdriverMetricClient.prepend_label_names: dict of the pairs
\* (prepend_key(k, prepend), v); of two pairs with one key dict keeps one
prepend_label_names(labels, prepend) ==
    [c \in { prepend_key(k, prepend) : k \in DOMAIN labels } |->
        labels[CHOOSE k \in DOMAIN labels : prepend_key(k, prepend) = c]]

\* StackdriverMetricClient.get_labels: {**r, **m}, m winning on a shared key
get_labels(result) ==
    LET r == prepend_label_names(result.resource, "resource")
        m == prepend_label_names(result.metric, "metric")
    IN  [c \in DOMAIN r \cup DOMAIN m |-> IF c \in DOMAIN m THEN m[c] ELSE r[c]]

\* StackdriverMetricClient.get_point_value for a BOOL metric: int(bool_value)
get_point_value(bool_value) == IF bool_value THEN 1 ELSE 0

\* StackdriverMetricClient.point_dict (the two timestamps are not modelled:
\* no aggregation reads them)
point_dict(point, labels) == [value |-> get_point_value(point), labels |-> labels]

\* the points list of to_df: the points of every time series, in order
RECURSIVE PointsOf(_)
PointsOf(iterator) ==
    IF iterator = << >> THEN << >>
    ELSE LET result == Head(iterator)
             labels == get_labels(result)
         IN  [i \in DOMAIN result.points |-> point_dict(result.points[i], labels)]
                \o PointsOf(Tail(iterator))

\* timeseries_dataframe that hands back an empty frame for no points
timeseries_dataframe_exc_EmptyFrame(vt, flt, iterator) ==
    IF validate_types_set_exc(flt) # "none" THEN validate_types_set_exc(flt)
    ELSE IF PointsOf(iterator) = << >> THEN "none"
    ELSE IF vt # "BOOL" THEN "Exception"
    ELSE "none"

\* what StackdriverMetricClient.timeseries_dataframe raises for a response:
\* ValueError from the filter string, Exception from get_point_value at the
\* first point of a metric that is not BOOL, NoMetricDataAvailable from to_df
timeseries_dataframe_exc(vt, flt, iterator) ==
    IF validate_types_set_exc(flt) # "none" THEN validate_types_set_exc(flt)
    ELSE IF PointsOf(iterator) = << >> THEN "NoMetricDataAvailable"
    ELSE IF vt # "BOOL" THEN "Exception"
    ELSE "none"

\* StackdriverMetricClient.timeseries_dataframe when it returns
timeseries_dataframe(iterator) == to_df(PointsOf(iterator))

\* Sli.get_metric_data for the response the source gives: the frame held
\* after the call, the exception raised and what is returned
get_metric_data(length, vt, flt, iterator, old) ==
    IF length = None
    THEN [metric_data |-> old, exc |-> "ValueNotSet", ret |-> "raised"]
    ELSE LET exc == timeseries_dataframe_exc(vt, flt, iterator)
         IN  IF exc # "none"
             THEN [metric_data |-> old, exc |-> exc, ret |-> "raised"]
             ELSE [metric_data |-> timeseries_dataframe(iterator),
                   exc |-> "none", ret |-> "None"]

----------------------------------------------------------------------------
(* The engine *)

\* the record of a call: what was called, the exception raised ("none" when
\* it returned), what it returned ("slo_data": the stored table; "value": the
\* value in the field list or int), whether the call before it was the same
\* operation, and what slo_data held when it was made
Call(op, exc, ret) ==
    [op |-> op, exc |-> exc, ret |-> ret, again |-> FALSE, prior |-> "none"]

PriorOf(table) ==
    IF table = None THEN "none"
    ELSE IF HasColumn(table, "error_budget") THEN "budget"
    ELSE "table"

EngineCall(op, out) ==
    [op |-> op, exc |-> out.exc, ret |-> out.ret,
     again |-> (last.op = op), prior |-> PriorOf(slo_data)]

\* StackDriverFilter.__init__ (resource_labels and metric_labels are not
\* implemented: nothing reads them)
StackDriverFilter == [metric_type |-> None, resource_type |-> None]

\* StackdriverMetricClient.__init__
ClientConstructed ==
    /\ metric_type = None
    /\ resource_type = None
    /\ value_type = "None"
    /\ filter = StackDriverFilter

\* Sli.__init__ (window_end is time.time()) around a client just constructed
Constructed ==
    /\ ClientConstructed
    /\ metric_data = None
    /\ window_end = Now
    /\ window_length = [days |-> 0]
    /\ slo = None
    /\ slo_data = None
    /\ group_by_resource_labels = << >>
    /\ group_by_metric_labels = << >>
    /\ last = Call("init", "none", "None")
    /\ calculated = FALSE

\* calculate that also drops from metric_data the rows its grouping drops
Calculate_DropsIncomplete ==
    LET out == calculate(value_type, metric_data, window_end, window_length, slo,
                         group_by_resource_labels, group_by_metric_labels, slo_data)
        keys == group_by_labels(group_by_resource_labels, group_by_metric_labels)
    IN  /\ slo_data' = out.slo_data
        /\ last' = EngineCall("calculate", out)
        /\ calculated' = (calculated \/ out.ret = "slo_data")
        /\ metric_data' = IF metric_data = None THEN None
                          ELSE [metric_data EXCEPT !.rows = GroupedRows(metric_data, keys)]
        /\ UNCHANGED << window_end, window_length, slo, group_by_resource_labels,
                        group_by_metric_labels, value_type, client >>

Calculate ==
    LET out == calculate(value_type, metric_data, window_end, window_length, slo,
                         group_by_resource_labels, group_by_metric_labels, slo_data)
    IN  /\ slo_data' = out.slo_data
        /\ last' = EngineCall("calculate", out)
        /\ calculated' = (calculated \/ out.ret = "slo_data")
        /\ UNCHANGED config

ErrorBudget ==
    LET out == error_budget(slo, slo_data)
    IN  /\ slo_data' = out.slo_data
        /\ last' = EngineCall("error_budget", out)
        /\ UNCHANGED << config, calculated >>

\* attribute assignments by the caller
SetMetricData(frame) ==
    /\ metric_data' = frame
    /\ last' = Call("set", "none", "None")
    /\ UNCHANGED << window_end, window_length, slo, slo_data, calculated,
                    group_by_resource_labels, group_by_metric_labels, value_type, client >>

SetSlo(objective) ==
    /\ slo' = objective
    /\ last' = Call("set", "none", "None")
    /\ UNCHANGED << metric_data, window_end, window_length, slo_data, calculated,
                    group_by_resource_labels, group_by_metric_labels, value_type, client >>

SetGroupByResourceLabels(labels) ==
    /\ group_by_resource_labels' = labels
    /\ last' = Call("set", "none", "None")
    /\ UNCHANGED << metric_data, window_end, window_length, slo, slo_data, calculated,
                    group_by_metric_labels, value_type, client >>

SetGroupByMetricLabels(labels) ==
    /\ group_by_metric_labels' = labels
    /\ last' = Call("set", "none", "None")
    /\ UNCHANGED << metric_data, window_end, window_length, slo, slo_data, calculated,
                    group_by_resource_labels, value_type, client >>

SetValueType(vt) ==
    /\ value_type' = vt
    /\ last' = Call("set", "none", "None")
    /\ UNCHANGED << metric_data, window_end, window_length, slo, slo_data, calculated,
                    group_by_resource_labels, group_by_metric_labels, client >>

SetWindowEnd(end) ==
    /\ window_end' = end
    /\ last' = Call("set", "none", "None")
    /\ UNCHANGED << metric_data, window_length, slo, slo_data, calculated,
                    group_by_resource_labels, group_by_metric_labels, value_type, client >>

SetWindowLength(length) ==
    /\ window_length' = length
    /\ last' = Call("set", "none", "None")
    /\ UNCHANGED << metric_data, window_end, slo, slo_data, calculated,
                    group_by_resource_labels, group_by_metric_labels, value_type, client >>

\* the metric_type setter writing the filter's resource_type
metric_type_setter_IntoResource(flt, t) == [flt EXCEPT !.resource_type = t]

\* StackdriverMetricClient.metric_type = t: the filter first, then the client
metric_type_setter(flt, t) == [flt EXCEPT !.metric_type = t]

\* StackdriverMetricClient.resource_type = t
resource_type_setter(flt, t) == [flt EXCEPT !.resource_type = t]

SetMetricType(t) ==
    /\ filter' = metric_type_setter(filter, t)
    /\ metric_type' = t
    /\ last' = Call("set_metric_type", "none", "None")
    /\ UNCHANGED << metric_data, window_end, window_length, slo, slo_data, calculated,
                    group_by_resource_labels, group_by_metric_labels, value_type,
                    resource_type >>

SetResourceType(t) ==
    /\ filter' = resource_type_setter(filter, t)
    /\ resource_type' = t
    /\ last' = Call("set_resource_type", "none", "None")
    /\ UNCHANGED << metric_data, window_end, window_length, slo, slo_data, calculated,
                    group_by_resource_labels, group_by_metric_labels, value_type,
                    metric_type >>

\* Sli.get_metric_data, the source answering with the time series of iterator
\* (last also records how many time series and points the answer holds)
GetMetricData(iterator) ==
    LET out == get_metric_data(window_length, value_type, filter, iterator,
                               metric_data)
    IN  /\ metric_data' = out.metric_data
        /\ last' = EngineCall("get_metric_data", out)
                        @@ [points |-> Len(PointsOf(iterator)),
                            series |-> Len(iterator)]
        /\ UNCHANGED << window_end, window_length, slo, slo_data, calculated,
                        group_by_resource_labels, group_by_metric_labels,
                        value_type, client >>

----------------------------------------------------------------------------
(* Spec: an engine through any sequence of reconfiguration, calculate() and
   error_budget() calls, over a few sample frames *)

Obs(v, res, met) ==
    [value |-> v,
     labels |-> [c \in { prepend_key("env", "resource") : x \in res }
                        \cup { prepend_key("env", "metric") : x \in met } |->
                    IF c = prepend_key("env", "resource")
                    THEN CHOOSE x \in res : TRUE
                    ELSE CHOOSE x \in met : TRUE]]

\* two resource groups; a point without the metric label; the empty frames
SampleFrames ==
    { to_df(<< Obs(1, {"b"}, {"a"}), Obs(0, {"a"}, {"a"}) >>),
      to_df(<< Obs(1, {"a"}, {}), Obs(1, {"a"}, {"b"}) >>) } \cup EmptyFrames

Init == Constructed

SetConfig ==
    \/ \E frame \in SampleFrames : SetMetricData(frame)
    \/ \E objective \in Slos \cup {None} : SetSlo(objective)
    \/ \E labels \in GroupLists : SetGroupByResourceLabels(labels)
    \/ \E labels \in GroupLists : SetGroupByMetricLabels(labels)
    \/ \E vt \in ValueTypes : SetValueType(vt)

Next == SetConfig \/ Calculate \/ ErrorBudget

Spec == Init /\ [][Next]_vars

----------------------------------------------------------------------------
(* SpecCalc: calculate() on every frame of the bounds and every grouping,
   the engine configured for a boolean metric *)

InitCalc ==
    /\ metric_data \in Frames
    /\ window_end = Now
    /\ window_length = [days |-> 1]
    /\ slo = Rat(99, 100)
    /\ slo_data = None
    /\ group_by_resource_labels \in { l \in GroupLists : ~HasDuplicates(l) }
    /\ group_by_metric_labels \in { l \in GroupLists : ~HasDuplicates(l) }
    /\ value_type = "BOOL"
    /\ metric_type = None
    /\ resource_type = None
    /\ filter = StackDriverFilter
    /\ last = Call("init", "none", "None")
    /\ calculated = FALSE

NextCalc == Calculate

SpecCalc == InitCalc /\ [][NextCalc]_vars

----------------------------------------------------------------------------
(* SpecFetch: an engine that fetches its data: the window, the objective, the
   grouping and the client are reassigned, get_metric_data() fetches and
   calculate() aggregates what was fetched *)

\* a time series of a response: its resource labels, its metric labels, and
\* the bool_value of each of its points
TimeSeries(resource, metric, points) ==
    [metric |-> metric, points |-> points, resource |-> resource]

\* what the source answers: no time series; time series without a point; two
\* time series of the same unqualified label; a time series that lacks the
\* resource label next to one that has it
Responses ==
    { << >>,
      << TimeSeries([env |-> "a"], [env |-> "a"], << >>) >>,
      << TimeSeries([env |-> "a"], [env |-> "b"], << >>),
         TimeSeries([env |-> "b"], [env |-> "b"], << >>) >>,
      << TimeSeries([env |-> "b"], [env |-> "a"], << TRUE, FALSE >>),
         TimeSeries([env |-> "a"], [env |-> "a"], << TRUE >>) >>,
      << TimeSeries([env |-> "a"], [env |-> "a"], << >>),
         TimeSeries(<< >>, [env |-> "a"], << FALSE >>),
         TimeSeries([env |-> "a"], [env |-> "a"], << TRUE >>) >> }

\* the metric and resource types a caller assigns
TypeNames == { None, Str(""), Str("m"), Str("r") }

\* window lengths assigned before a fetch
FetchDays == { None, [days |-> 0], [days |-> 1] }

InitFetch == Constructed

NextFetch ==
    \/ \E end \in WindowEnds : SetWindowEnd(end)
    \/ \E length \in FetchDays : SetWindowLength(length)
    \/ \E objective \in { None, Rat(99, 100) } : SetSlo(objective)
    \/ \E labels \in { << >>, << "env" >> } : SetGroupByResourceLabels(labels)
    \/ \E vt \in { "BOOL", "INT64" } : SetValueType(vt)
    \/ \E t \in { None, Str("m") } : SetMetricType(t)
    \/ \E iterator \in Responses : GetMetricData(iterator)
    \/ Calculate

SpecFetch == InitFetch /\ [][NextFetch]_vars

----------------------------------------------------------------------------
(* SpecOrder: an engine through any sequence of calculate() and
   error_budget() calls while its data, its objective, its value type, its
   grouping and also its window length are reassigned *)

InitOrder == Constructed

NextOrder ==
    \/ \E frame \in SampleFrames : SetMetricData(frame)
    \/ \E objective \in { None, Rat(99, 100) } : SetSlo(objective)
    \/ \E vt \in { "BOOL", "INT64" } : SetValueType(vt)
    \/ \E length \in FetchDays : SetWindowLength(length)
    \/ \E labels \in { << >>, << "env" >> } : SetGroupByResourceLabels(labels)
    \/ Calculate
    \/ ErrorBudget

SpecOrder == InitOrder /\ [][NextOrder]_vars

----------------------------------------------------------------------------
(* SpecBudget: calculate() and error_budget(), in any order, on frames with
   a grouping, the engine configured for a boolean metric *)

\* the frames budgeted: a row fewer than the frames of SpecCalc, each frame
\* being calculated and budgeted several times over
BudgetFrames == FramesUpTo(MaxRows - 1)

InitBudget ==
    /\ metric_data \in BudgetFrames
    /\ window_end = Now
    /\ window_length = [days |-> 1]
    /\ slo \in { Rat(99, 100), FromInt(1) }
    /\ slo_data = None
    /\ group_by_resource_labels \in { << >>, << "env" >> }
    /\ group_by_metric_labels \in { << >>, << "env" >> }
    /\ UsesAgg(group_by_resource_labels, group_by_metric_labels)
    /\ value_type = "BOOL"
    /\ metric_type = None
    /\ resource_type = None
    /\ filter = StackDriverFilter
    /\ last = Call("init", "none", "None")
    /\ calculated = FALSE

NextBudget == Calculate \/ ErrorBudget

SpecBudget == InitBudget /\ [][NextBudget]_vars

----------------------------------------------------------------------------
(* SpecAttr: the derived attributes read on an engine whose window and
   group-by lists are reassigned *)

\* the group-by lists whose namespacing is read
LabelLists == SeqsUpTo(LabelNames, MaxLabelLen)

\* window lengths in days: None, or an int (the code checks no sign)
Days == { None } \cup { [days |-> d] : d \in (-1)..MaxDays }

\* reading Sli.group_by_labels
ReadGroupByLabels ==
    /\ last' = Call("group_by_labels", "none", "value")
                    @@ [list |-> group_by_labels(group_by_resource_labels,
                                                 group_by_metric_labels)]
    /\ UNCHANGED << config, slo_data, calculated >>

\* calling Sli.days_to_seconds(days)
CallDaysToSeconds(days) ==
    /\ last' = Call("days_to_seconds", "none", "value")
                    @@ [arg |-> days, int |-> days_to_seconds(days)]
    /\ UNCHANGED << config, slo_data, calculated >>

\* reading Sli.window_length_seconds: None * 24 raises TypeError
ReadWindowLengthSeconds ==
    /\ last' = IF window_length = None
               THEN Call("window_length_seconds", "TypeError", "raised")
               ELSE Call("window_length_seconds", "none", "value")
                        @@ [int |-> window_length_seconds(window_length)]
    /\ UNCHANGED << config, slo_data, calculated >>

\* reading Sli.window_start
ReadWindowStart ==
    /\ last' = IF window_length = None
               THEN Call("window_start", "TypeError", "raised")
               ELSE Call("window_start", "none", "value")
                        @@ [int |-> window_start(window_end, window_length)]
    /\ UNCHANGED << config, slo_data, calculated >>

InitAttr == Constructed

NextAttr ==
    \/ \E end \in WindowEnds : SetWindowEnd(end)
    \/ \E length \in Days : SetWindowLength(length)
    \/ \E labels \in LabelLists : SetGroupByResourceLabels(labels)
    \/ \E labels \in LabelLists : SetGroupByMetricLabels(labels)
    \/ ReadGroupByLabels
    \/ \E d \in 0..MaxDays : CallDaysToSeconds(d)
    \/ ReadWindowLengthSeconds
    \/ ReadWindowStart

SpecAttr == InitAttr /\ [][NextAttr]_vars

----------------------------------------------------------------------------
(* SpecClient: a client whose metric and resource types are assigned and
   cleared in any order, whose filter is read, and whose label namespacing is
   called on the labels of time series *)

\* the label dicts of a time series: over the names env and ver, so that a
\* resource label and a metric label may share a name
ResultLabels == LabelDicts(LabelNames)

\* keys handed to prepend_key: the empty key and keys that begin with, or
\* contain, the separator among them
PrependKeys == { "env", "ver", "", "_env", "__env", "metric__env" }

\* prefixes handed to prepend_key: the two origins, and prefixes no origin
Prepends == Origins \cup { "before", "metric_" }

\* reading StackDriverFilter.string of the client's filter
ReadFilterString ==
    /\ last' = IF validate_types_set_exc(filter) # "none"
               THEN Call("string", validate_types_set_exc(filter), "raised")
               ELSE Call("string", "none", "value") @@ [text |-> string(filter)]
    /\ UNCHANGED << config, slo_data, calculated >>

\* calling StackDriverFilter.validate_types_set of the client's filter
CallValidateTypesSet ==
    /\ last' = IF validate_types_set_exc(filter) # "none"
               THEN Call("validate_types_set", validate_types_set_exc(filter), "raised")
               ELSE Call("validate_types_set", "none", "True")
    /\ UNCHANGED << config, slo_data, calculated >>

\* calling StackdriverMetricClient.get_labels(result), result a time series
\* with these resource and metric labels
CallGetLabels(resource, metric) ==
    /\ last' = LET result == TimeSeries(resource, metric, << >>)
               IN  Call("get_labels", "none", "value")
                        @@ [map |-> get_labels(result), result |-> result]
    /\ UNCHANGED << config, slo_data, calculated >>

\* calling StackdriverMetricClient.prepend_key(key, prepend)
CallPrependKey(key, prepend) ==
    /\ last' = Call("prepend_key", "none", "value")
                    @@ [key |-> key, prepend |-> prepend,
                        text |-> prepend_key(key, prepend)]
    /\ UNCHANGED << config, slo_data, calculated >>

InitClient == Constructed

NextClient ==
    \/ \E t \in TypeNames : SetMetricType(t)
    \/ \E t \in TypeNames : SetResourceType(t)
    \/ ReadFilterString
    \/ CallValidateTypesSet
    \/ \E r \in ResultLabels, m \in ResultLabels :
            CallGetLabels(r, m)
    \/ \E key \in PrependKeys, prepend \in Prepends : CallPrependKey(key, prepend)

SpecClient == InitClient /\ [][NextClient]_vars

----------------------------------------------------------------------------
(* C4 *)

GroupByLabelsAsSpecified ==
    LET r == group_by_resource_labels
        m == group_by_metric_labels
        g == last.list
    IN  /\ Len(g) = Len(r) + Len(m)
        /\ \A i \in 1..Len(r) : g[i] = "resource__" \o r[i]
        /\ \A j \in 1..Len(m) : g[Len(r) + j] = "metric__" \o m[j]

\* C4: reading group_by_labels gives the resource label names, each prefixed
\* 'resource__', followed by the metric label names, each prefixed 'metric__',
\* both in the order given; its length is the sum of the two lengths, and the
\* read changes nothing of the engine.
C4_GroupByLabels ==
    [][ last'.op = "group_by_labels" =>
            /\ GroupByLabelsAsSpecified'
            /\ UNCHANGED << config, slo_data >> ]_vars

\* a read with two different resource labels and a metric label
C4_Witness ==
    /\ last.op = "group_by_labels"
    /\ Len(group_by_resource_labels) = 2
    /\ group_by_resource_labels[1] # group_by_resource_labels[2]
    /\ Len(group_by_metric_labels) >= 1
    /\ last.list[3] = "metric__" \o group_by_metric_labels[1]

----------------------------------------------------------------------------
(* C7 *)

\* C7: days_to_seconds(d) = d * 86400; window_length_seconds is
\* days_to_seconds(window_length), 0 while window_length is the constructor's 0;
\* window_start = window_end - days_to_seconds(window_length).
C7_WindowArithmetic ==
    /\ last.op = "days_to_seconds" => last.int = last.arg * 86400
    /\ (last.op = "window_length_seconds" /\ window_length # None) =>
            /\ last.exc = "none"
            /\ last.int = window_length.days * 86400
            /\ (window_length.days = 0 => last.int = 0)
    /\ (last.op = "window_start" /\ window_length # None) =>
            /\ last.exc = "none"
            /\ last.int = window_end - window_length.days * 86400

\* window_start read with a window of two days that ends at 200000
C7_Witness ==
    /\ last.op = "window_start"
    /\ window_length = [days |-> 2]
    /\ window_end = 200000
    /\ last.int = 27200

----------------------------------------------------------------------------
(* C1, C2, C3: the aggregation, under SpecCalc *)

Ungrouped == group_by_resource_labels = << >> /\ group_by_metric_labels = << >>

\* the key columns of the present grouping (each list names env at most once)
FreshKeys ==
    (IF group_by_resource_labels = << >> THEN << >> ELSE << "resource__env" >>)
        \o (IF group_by_metric_labels = << >> THEN << >> ELSE << "metric__env" >>)

\* the number of good points among the points of index I
GoodAmong(I) == Cardinality({ i \in I : metric_data.rows[i].value = 1 })

\* the float x is the quotient n / d
IsQuotient(x, n, d) == x.den > 0 /\ x.num * d = n * x.den

\* C1: for a non-empty collection and no grouping, calculate() produces exactly
\* one row, with count_valid the number of observations, count_good the sum of
\* their values and sli = count_good / count_valid.
C1_SimpleAggregation ==
    (last.op = "calculate" /\ Ungrouped /\ Len(metric_data.rows) > 0) =>
        /\ last.exc = "none"
        /\ Len(slo_data.rows) = 1
        /\ LET row == slo_data.rows[1]
               n == Len(metric_data.rows)
           IN  /\ row["count_valid"] = n
               /\ row["count_good"] = GoodAmong(1..n)
               /\ IsQuotient(row["sli"], row["count_good"], row["count_valid"])

\* three points, two of them good, aggregated without grouping
C1_Witness ==
    /\ last.op = "calculate"
    /\ last.exc = "none"
    /\ Ungrouped
    /\ Len(metric_data.rows) = 3
    /\ slo_data.rows[1]["count_good"] = 2
    /\ slo_data.rows[1]["sli"] = [num |-> 2, den |-> 3]

ColumnSum(t, c) == SeqSum([i \in DOMAIN t.rows |-> t.rows[i][c]])

\* C2: conservation law: over the rows of a grouped aggregation, count_valid
\* sums to the count_valid of the ungrouped aggregation of the same data, and
\* count_good to its count_good, also when an observation has no value for a
\* grouped label.
C2_Conservation ==
    (last.op = "calculate" /\ last.exc = "none" /\ ~Ungrouped) =>
        LET simple == calc_bool_simple(metric_data).rows[1]
        IN  /\ ColumnSum(slo_data, "count_valid") = simple["count_valid"]
            /\ ColumnSum(slo_data, "count_good") = simple["count_good"]

\* the points that have a value for every grouped label
Complete(keys) ==
    { i \in DOMAIN metric_data.rows :
        Range(keys) \subseteq DOMAIN metric_data.rows[i].labels }

\* the points whose grouped labels are those of the table row
MembersOf(row, keys) ==
    { i \in Complete(keys) :
        \A k \in Range(keys) : metric_data.rows[i].labels[k] = row[k] }

\* C3: grouped aggregation yields exactly one row per distinct tuple of
\* group-key values occurring in the data; the row's count_good is the sum of
\* value over the observations with that tuple and its count_valid their
\* number (the count_valid merged by position is that of the row's own tuple).
C3_GroupedAggregation ==
    (last.op = "calculate" /\ last.exc = "none" /\ ~Ungrouped) =>
        LET used == FreshKeys
            rows == slo_data.rows
        IN  /\ \A i \in Complete(used) :
                   Cardinality({ g \in DOMAIN rows : i \in MembersOf(rows[g], used) }) = 1
            /\ \A g \in DOMAIN rows :
                   /\ MembersOf(rows[g], used) # {}
                   /\ rows[g]["count_valid"] = Cardinality(MembersOf(rows[g], used))
                   /\ rows[g]["count_good"] = GoodAmong(MembersOf(rows[g], used))

\* two groups of different sizes: the second of two points of which one good
C3_Witness ==
    /\ last.op = "calculate"
    /\ last.exc = "none"
    /\ group_by_resource_labels = << "env" >>
    /\ group_by_metric_labels = << "env" >>
    /\ Len(slo_data.rows) = 2
    /\ slo_data.rows[1]["count_valid"] = 1
    /\ slo_data.rows[2]["count_valid"] = 2
    /\ slo_data.rows[2]["count_good"] = 1
    /\ metric_data.rows[1].labels["resource__env"] = "b"

----------------------------------------------------------------------------
(* C5, C6: error_budget(), under Spec *)

\* C5: error_budget() called while slo is None raises ValueNotSet, whether
\* or not a table has been calculated, and leaves slo_data as it was.
C5_ErrorBudgetNeedsSlo ==
    [][ (last'.op = "error_budget" /\ slo = None) =>
            /\ last'.exc = "ValueNotSet"
            /\ slo_data' = slo_data ]_vars

\* error_budget() refused on an engine that holds a calculated table
C5_Witness ==
    /\ last.op = "error_budget"
    /\ last.exc = "ValueNotSet"
    /\ slo = None
    /\ last.prior = "table"
    /\ slo_data # None

\* the table of the spec's example: 100 valid events of which 97 good
ExampleTable ==
    Table(<< "count_good", "count_valid" >>,
          << [count_good |-> 97, count_valid |-> 100] >>)

\* C6: after error_budget() has succeeded, every row has
\* error_budget = count_valid * (1 - slo) and
\* error_budget_remaining = error_budget - (count_valid - count_good);
\* count_valid = 100, count_good = 97 and slo = 0.99 give 1 and -2.
C6_ErrorBudgetFigures ==
    /\ (last.op = "error_budget" /\ last.exc = "none") =>
          \A i \in DOMAIN slo_data.rows :
            LET row == slo_data.rows[i]
                e == row["error_budget"]
                r == row["error_budget_remaining"]
                bad == row["count_valid"] - row["count_good"]
            IN  /\ IsQuotient(e, row["count_valid"] * (slo.den - slo.num), slo.den)
                /\ IsQuotient(r, e.num - bad * e.den, e.den)
    /\ LET row == error_budget_columns(ExampleTable, Rat(99, 100)).rows[1]
       IN  /\ row["error_budget"] = FromInt(1)
           /\ row["error_budget_remaining"] = FromInt(-2)

\* two grouped rows budgeted at slo = 0.99: 1/100 allowed, one bad event in
\* the first row
C6_Witness ==
    /\ last.op = "error_budget"
    /\ last.exc = "none"
    /\ slo = Rat(99, 100)
    /\ Len(slo_data.rows) = 2
    /\ slo_data.rows[1]["count_good"] = 0
    /\ slo_data.rows[1]["error_budget"] = Rat(1, 100)
    /\ slo_data.rows[1]["error_budget_remaining"] = Rat(-99, 100)

----------------------------------------------------------------------------
(* C8, C9, C10: calculate(), under Spec *)

\* C8: calculate() with a value type that is neither BOOL nor the reserved
\* placeholder (None and INT64 among them) raises UnsupportedMetricType and
\* leaves the stored table as it was.
C8_UnsupportedMetricType ==
    [][ (last'.op = "calculate" /\ value_type \notin {"BOOL", "Some other type"}) =>
            /\ last'.exc = "UnsupportedMetricType"
            /\ slo_data' = slo_data ]_vars

\* an INT64 metric refused on an engine that holds a table with its budget
C8_Witness ==
    /\ last.op = "calculate"
    /\ last.exc = "UnsupportedMetricType"
    /\ value_type = "INT64"
    /\ last.prior = "budget"
    /\ HasColumn(slo_data, "error_budget")

\* C9: calculate() called again right after a calculate() that succeeded, with
\* nothing reassigned in between, succeeds with the same table: the same rows
\* in the same order with the same cells.
C9_CalculateIdempotent ==
    [][ (last.op = "calculate" /\ last.ret = "slo_data" /\ last'.op = "calculate") =>
            /\ last'.ret = "slo_data"
            /\ slo_data' = slo_data ]_vars

\* a second calculate() in a row over two groups
C9_Witness ==
    /\ last.op = "calculate"
    /\ last.again
    /\ last.ret = "slo_data"
    /\ Len(slo_data.rows) = 2

\* the columns of a table calculate() has just stored
FreshColumns ==
    FreshKeys \o << "count_good", "count_valid", "sli", "period_from", "period_to", "slo" >>

\* C10: a calculate() that succeeds stores a freshly computed table: it is the
\* table calculate() stores on an engine that held none, it has the columns of a
\* calculation only (no error_budget, no error_budget_remaining, no key column
\* of another grouping), and its rows are those of the present grouping of the
\* present data.
C10_CalculateReplaces ==
    (last.op = "calculate" /\ last.ret = "slo_data") =>
        /\ slo_data = calculate(value_type, metric_data, window_end, window_length,
                                slo, group_by_resource_labels,
                                group_by_metric_labels, None).slo_data
        /\ slo_data.columns = FreshColumns
        /\ \A i \in DOMAIN slo_data.rows :
                DOMAIN slo_data.rows[i] = Range(FreshColumns)
        /\ Len(slo_data.rows) =
                IF Ungrouped THEN 1
                ELSE Cardinality({ [k \in Range(FreshKeys) |->
                                        metric_data.rows[i].labels[k]] :
                                            i \in Complete(FreshKeys) })

\* a simple calculation stored over a grouped table that carried its budget
C10_Witness ==
    /\ last.op = "calculate"
    /\ last.ret = "slo_data"
    /\ last.prior = "budget"
    /\ Ungrouped
    /\ Len(metric_data.rows) = 2

----------------------------------------------------------------------------
(* C11: the period and the objective of a calculation, under SpecFetch *)

\* C11: after a calculate() that succeeded, every row of the table carries
\* period_to = window_end, period_from = window_end - window_length * 86400
\* and slo = the configured objective: the same three values in every row.
C11_PeriodAndSlo ==
    (last.op = "calculate" /\ last.ret = "slo_data") =>
        /\ Len(slo_data.rows) >= 1
        /\ \A i \in DOMAIN slo_data.rows :
             LET row == slo_data.rows[i]
             IN  /\ row["period_to"] = [utc |-> window_end]
                 /\ row["period_from"] =
                        [utc |-> window_end - window_length.days * 86400]
                 /\ row["slo"] = slo

\* two groups calculated over a window of one day that ends at 86400
C11_Witness ==
    /\ last.op = "calculate"
    /\ last.ret = "slo_data"
    /\ window_end = 86400
    /\ window_length = [days |-> 1]
    /\ slo = Rat(99, 100)
    /\ Len(slo_data.rows) = 2
    /\ slo_data.rows[2]["period_from"] = [utc |-> 0]
    /\ slo_data.rows[2]["slo"] = Rat(99, 100)

----------------------------------------------------------------------------
(* C12, C14: get_metric_data(), under SpecFetch *)

\* the fetch is made: window_length is set and the filter has a type
FetchIsMade == window_length # None /\ validate_types_set_exc(filter) = "none"

\* C12: a fetch answered with no point (no time series, or time series
\* without points) raises NoMetricDataAvailable out of get_metric_data(), which
\* leaves metric_data as it was; no frame without a row is ever stored.
C12_NoMetricDataAvailable ==
    [][ (last'.op = "get_metric_data" /\ FetchIsMade) =>
            /\ last'.points = 0 =>
                    /\ last'.exc = "NoMetricDataAvailable"
                    /\ metric_data' = metric_data
            /\ last'.exc = "none" =>
                    /\ last'.points > 0
                    /\ Len(metric_data'.rows) = last'.points ]_vars

\* two time series without a point answered to an engine that holds a frame
C12_Witness ==
    /\ last.op = "get_metric_data"
    /\ last.exc = "NoMetricDataAvailable"
    /\ last.series = 2
    /\ last.points = 0
    /\ metric_data # None
    /\ Len(metric_data.rows) = 3

\* C14: with window_length None, get_metric_data() raises ValueNotSet, and so
\* does a calculate() that has aggregated a boolean metric and comes to derive
\* period_from: ValueNotSet, no other error.
C14_WindowLengthNotSet ==
    /\ (last.op = "get_metric_data" /\ window_length = None) =>
            last.exc = "ValueNotSet"
    /\ (/\ last.op = "calculate"
        /\ window_length = None
        /\ value_type = "BOOL"
        /\ calc_bool_exc(metric_data, group_by_resource_labels,
                         group_by_metric_labels) = "none") =>
            last.exc = "ValueNotSet"

----------------------------------------------------------------------------
(* C13: calculate() on a frame without a row, under SpecCalc *)

\* C13: calculate() without grouping on an empty collection of observations
\* does not raise: it stores one row with count_valid = 0, count_good = 0 and
\* sli NaN.
C13_EmptyCollection ==
    (last.op = "calculate" /\ Ungrouped /\ Len(metric_data.rows) = 0) =>
        /\ last.exc = "none"
        /\ Len(slo_data.rows) = 1
        /\ slo_data.rows[1]["count_valid"] = 0
        /\ slo_data.rows[1]["count_good"] = 0
        /\ slo_data.rows[1]["sli"] = NaN

----------------------------------------------------------------------------
(* C15, C20: the reserved value type and error_budget(), under Spec *)

\* C15: calculate() with the reserved value type returns None, raises nothing
\* and leaves slo_data exactly as it was; an error_budget() that follows it
\* finds no table of that call: on an engine that held none it yields no
\* figures, and otherwise its figures are those of the table held before.
C15_ReservedTypeNoOp ==
    [][ /\ (last'.op = "calculate" /\ value_type = "Some other type") =>
                /\ last'.exc = "none"
                /\ last'.ret = "None"
                /\ slo_data' = slo_data
        /\ (/\ last.op = "calculate"
            /\ value_type = "Some other type"
            /\ last'.op = "error_budget") =>
                /\ last.prior = "none" => (last'.exc # "none" /\ slo_data' = None)
                /\ last'.exc = "none" =>
                        /\ last.prior # "none"
                        /\ slo_data' = error_budget_columns(slo_data, slo) ]_vars

\* the reserved type calculated on an engine that holds a table of two rows
C15_Witness ==
    /\ last.op = "calculate"
    /\ value_type = "Some other type"
    /\ last.ret = "None"
    /\ last.prior = "table"
    /\ metric_data # None
    /\ Len(slo_data.rows) = 2

\* the columns error_budget() assigns
BudgetColumns == { "error_budget", "error_budget_remaining" }

\* C20: an error_budget() that succeeds returns the stored table; the table
\* has the columns it had, followed by error_budget and error_budget_remaining
\* when it had them not; its rows are as many, in the same order, with every
\* other cell as it was; called again at once it leaves the table as it is.
C20_ErrorBudgetInPlace ==
    [][ (last'.op = "error_budget" /\ last'.exc = "none") =>
            /\ last'.ret = "slo_data"
            /\ slo_data'.columns =
                    IF last'.prior = "budget" THEN slo_data.columns
                    ELSE slo_data.columns \o << "error_budget", "error_budget_remaining" >>
            /\ Len(slo_data'.rows) = Len(slo_data.rows)
            /\ \A i \in DOMAIN slo_data.rows :
                    /\ DOMAIN slo_data'.rows[i] = DOMAIN slo_data.rows[i] \cup BudgetColumns
                    /\ \A c \in DOMAIN slo_data.rows[i] \ BudgetColumns :
                            slo_data'.rows[i][c] = slo_data.rows[i][c]
            /\ (last.op = "error_budget" /\ last.exc = "none") =>
                    slo_data' = slo_data ]_vars

\* error_budget() twice in a row over a grouped table of two rows
C20_Witness ==
    /\ last.op = "error_budget"
    /\ last.exc = "none"
    /\ last.again
    /\ last.prior = "budget"
    /\ Len(slo_data.rows) = 2
    /\ "resource__env" \in DOMAIN slo_data.rows[1]

----------------------------------------------------------------------------
(* C16, C17, C18, C19: the client and its filter, under SpecClient *)

\* C16: get_labels gives every resource label k under the key 'resource__k'
\* and every metric label k under 'metric__k', each with its value, and
\* nothing else: as many entries as both dicts together, also when a resource
\* label and a metric label have the same name.
C16_GetLabels ==
    last.op = "get_labels" =>
        LET r == last.result.resource
            m == last.result.metric
            g == last.map
        IN  /\ Cardinality(DOMAIN g) = Cardinality(DOMAIN r) + Cardinality(DOMAIN m)
            /\ \A k \in DOMAIN r :
                    /\ ("resource__" \o k) \in DOMAIN g
                    /\ g["resource__" \o k] = r[k]
            /\ \A k \in DOMAIN m :
                    /\ ("metric__" \o k) \in DOMAIN g
                    /\ g["metric__" \o k] = m[k]

\* both dicts name env and ver, with different values for env
C16_Witness ==
    /\ last.op = "get_labels"
    /\ DOMAIN last.result.resource = {"env", "ver"}
    /\ DOMAIN last.result.metric = {"env", "ver"}
    /\ last.result.resource["env"] # last.result.metric["env"]
    /\ Cardinality(DOMAIN last.map) = 4
    /\ last.map["resource__env"] = "a"
    /\ last.map["metric__env"] = "b"

\* C17: prepend_key(key, origin) is origin, '__', key; for the origins
\* resource and metric no other pair of an origin and a key gives the same
\* name, so the pair is recovered from the name.
C17_PrependKey ==
    last.op = "prepend_key" =>
        /\ last.text = last.prepend \o "__" \o last.key
        /\ last.prepend \in Origins =>
                \A o \in Origins, k \in PrependKeys :
                    prepend_key(k, o) = last.text => (o = last.prepend /\ k = last.key)

\* a key that itself holds a namespaced name, under the other origin
C17_Witness ==
    /\ last.op = "prepend_key"
    /\ last.prepend = "resource"
    /\ last.key = "metric__env"
    /\ last.text = "resource__metric__env"

\* the field of a filter is set
IsSet(x) == x # None /\ x # Str("")

\* C18: StackDriverFilter.string raises ValueError when neither metric_type
\* nor resource_type is set; otherwise it is the metric clause (when
\* metric_type is set) followed by the resource clause (when resource_type is
\* set), whatever the order of the assignments; validate_types_set returns
\* True when at least one of the two is set.
C18_FilterString ==
    LET m == filter.metric_type
        r == filter.resource_type
    IN  /\ last.op = "string" =>
            IF ~IsSet(m) /\ ~IsSet(r) THEN last.exc = "ValueError"
            ELSE /\ last.exc = "none"
                 /\ last.text =
                        (IF IsSet(m) THEN "metric.type=\"" \o m.str \o "\" " ELSE "")
                        \o (IF IsSet(r) THEN "resource.type=\"" \o r.str \o "\" " ELSE "")
        /\ (last.op = "validate_types_set" /\ (IsSet(m) \/ IsSet(r))) =>
                (last.exc = "none" /\ last.ret = "True")

\* both types set: the metric clause, then the resource clause
C18_Witness ==
    /\ last.op = "string"
    /\ filter.metric_type = Str("m")
    /\ filter.resource_type = Str("r")
    /\ last.text = "metric.type=\"m\" resource.type=\"r\" "

\* the filter holds the types of the client
FilterFollowsClient ==
    /\ filter.metric_type = metric_type
    /\ filter.resource_type = resource_type

\* C19: after any assignments to the client's metric_type and resource_type
\* the filter holds the same two values, and an assignment to one of the two
\* leaves the other, on the client and on the filter, as it was.
C19_FilterFollowsClient ==
    [][ /\ FilterFollowsClient'
        /\ last'.op = "set_metric_type" =>
                /\ resource_type' = resource_type
                /\ filter'.resource_type = filter.resource_type
        /\ last'.op = "set_resource_type" =>
                /\ metric_type' = metric_type
                /\ filter'.metric_type = filter.metric_type ]_vars

\* the resource type cleared on a client whose metric type is set
C19_Witness ==
    /\ last.op = "set_resource_type"
    /\ metric_type = Str("m")
    /\ filter.metric_type = Str("m")
    /\ resource_type = None
    /\ filter.resource_type = None

----------------------------------------------------------------------------
(* C21, C22: which aggregation, and the order of its rows, under SpecCalc *)

SimpleColumns == << "count_good", "count_valid", "sli", "period_from", "period_to", "slo" >>

\* C21: a calculate() on a boolean metric that succeeds has aggregated by
\* group exactly when one of the two group-by lists is non-empty: its table
\* then begins with the key columns and is the grouped aggregation of the data;
\* with both lists empty it is the single row of the simple aggregation.
C21_GroupedIffKeyed ==
    (last.op = "calculate" /\ last.exc = "none") =>
        LET keys == group_by_labels(group_by_resource_labels, group_by_metric_labels)
            grouped == Len(group_by_resource_labels) + Len(group_by_metric_labels) > 0
        IN  IF grouped
            THEN /\ slo_data.columns = keys \o SimpleColumns
                 /\ slo_data = add_slo(add_period(calc_bool_agg(metric_data, keys),
                                                  window_end, window_length), slo)
            ELSE /\ slo_data.columns = SimpleColumns
                 /\ Len(slo_data.rows) = 1
                 /\ slo_data = add_slo(add_period(calc_bool_simple(metric_data),
                                                  window_end, window_length), slo)

\* grouping by a resource label alone: two groups
C21_Witness ==
    /\ last.op = "calculate"
    /\ last.exc = "none"
    /\ group_by_resource_labels = << "env" >>
    /\ group_by_metric_labels = << >>
    /\ slo_data.columns[1] = "resource__env"
    /\ Len(slo_data.rows) = 2

\* the row g comes before the row h in the lexicographic order of the key
\* columns, the first key column weighing most
RowBefore(g, h, keys) ==
    \E i \in DOMAIN keys :
        /\ ValueRank(g[keys[i]]) < ValueRank(h[keys[i]])
        /\ \A j \in 1..(i - 1) : g[keys[j]] = h[keys[j]]

\* C22: the rows of a grouped table are in strictly ascending lexicographic
\* order of their key values, resource labels before metric labels, whatever
\* the order of the observations in the frame.
C22_RowsAscending ==
    (last.op = "calculate" /\ last.exc = "none" /\ ~Ungrouped) =>
        \A g, h \in DOMAIN slo_data.rows :
            g < h => RowBefore(slo_data.rows[g], slo_data.rows[h], FreshKeys)

\* three groups out of observations that come in descending order of their keys
C22_Witness ==
    /\ last.op = "calculate"
    /\ last.exc = "none"
    /\ group_by_resource_labels = << "env" >>
    /\ group_by_metric_labels = << "env" >>
    /\ Len(slo_data.rows) = 3
    /\ metric_data.rows[1].labels = [resource__env |-> "b", metric__env |-> "b"]
    /\ metric_data.rows[2].labels = [resource__env |-> "b", metric__env |-> "a"]
    /\ metric_data.rows[3].labels = [resource__env |-> "a", metric__env |-> "b"]
    /\ slo_data.rows[1]["resource__env"] = "a"
    /\ slo_data.rows[2]["metric__env"] = "a"

----------------------------------------------------------------------------
(* C23, C24: failures and the order of the calls, under SpecOrder *)

\* C23: no partial result: a calculate() or an error_budget() that raises,
\* whatever it raises, leaves the stored table exactly as it was before the
\* call.
C23_NoPartialResult ==
    [][ (last'.op \in {"calculate", "error_budget"} /\ last'.exc # "none") =>
            slo_data' = slo_data ]_vars

\* C24: error_budget() succeeds only on an engine on which a calculate() has
\* succeeded before.
C24_BudgetAfterCalculate ==
    (last.op = "error_budget" /\ last.exc = "none") => calculated

----------------------------------------------------------------------------
(* C25, C26, C27: calculate() and error_budget(), under Spec *)

\* C25: calculate() and error_budget(), whether they return or raise, leave
\* metric_data and the configuration (window_end, window_length, slo, the
\* group-by lists, the value type) as they were.
C25_InputsUntouched ==
    [][ last'.op \in {"calculate", "error_budget"} =>
            /\ metric_data' = metric_data
            /\ UNCHANGED << window_end, window_length, slo, group_by_resource_labels,
                            group_by_metric_labels, value_type >> ]_vars

\* a grouped calculation over a frame of which one row has no value for the
\* grouped label
C25_Witness ==
    /\ last.op = "calculate"
    /\ last.ret = "slo_data"
    /\ group_by_metric_labels = << "env" >>
    /\ Len(metric_data.rows) = 2
    /\ "metric__env" \notin DOMAIN metric_data.rows[1].labels
    /\ Len(slo_data.rows) = 1

\* C26: every stored row that has an error_budget has
\* error_budget = count_valid * (1 - s), s being the slo recorded in that row,
\* also when slo is reassigned between calculate() and error_budget().
C26_BudgetOfRecordedSlo ==
    (slo_data # None /\ HasColumn(slo_data, "error_budget")) =>
        \A i \in DOMAIN slo_data.rows :
            LET row == slo_data.rows[i]
                s == row["slo"]
            IN  /\ s # None
                /\ IsQuotient(row["error_budget"],
                              row["count_valid"] * (s.den - s.num), s.den)

\* C27: error_budget() raises ValueNotSet if and only if slo is None: every
\* number assigned to slo, 0 included, passes the check.
C27_ValueNotSetIffNone ==
    last.op = "error_budget" => (last.exc = "ValueNotSet" <=> slo = None)

----------------------------------------------------------------------------
(* C28: the ranges of the figures, under SpecBudget *)

\* the float a is at most the float b (neither NaN)
RLeq(a, b) == a.den > 0 /\ b.den > 0 /\ a.num * b.den <= b.num * a.den

\* C28: the values being 0 or 1, every row of a grouped table has
\* 1 <= count_valid, 0 <= count_good <= count_valid and so 0 <= sli <= 1; once
\* error_budget() has run with 0 < slo <= 1 it also has
\* error_budget_remaining <= error_budget.
C28_FigureRanges ==
    slo_data # None =>
        \A i \in DOMAIN slo_data.rows :
            LET row == slo_data.rows[i]
            IN  /\ 1 <= row["count_valid"]
                /\ 0 <= row["count_good"]
                /\ row["count_good"] <= row["count_valid"]
                /\ RLeq(FromInt(0), row["sli"])
                /\ RLeq(row["sli"], FromInt(1))
                /\ HasColumn(slo_data, "error_budget") =>
                        RLeq(row["error_budget_remaining"], row["error_budget"])

\* two groups budgeted at slo = 0.99, the second with a bad event
C28_Witness ==
    /\ last.op = "error_budget"
    /\ last.exc = "none"
    /\ slo = Rat(99, 100)
    /\ Len(slo_data.rows) = 2
    /\ slo_data.rows[2]["count_valid"] = 1
    /\ slo_data.rows[2]["count_good"] = 0
    /\ slo_data.rows[2]["error_budget_remaining"] = Rat(-99, 100)

====
